---- MODULE Spec2Model ----
(***************************************************************************)
(* HIPAAMaskingService (hipaa_masking_service.py): the de-identification   *)
(* pipeline of deidentify(text).                                           *)
(*                                                                         *)
(* Texts are strings; an offset pair (start, end) is Python's half-open    *)
(* slice text[start:end].  Scores are kept in hundredths (0.9 is 90).      *)
(*                                                                         *)
(* The analysis and anonymization engines are presidio's AnalyzerEngine    *)
(* and AnonymizerEngine, which the service only calls.  They are modelled  *)
(* by the post-processing those calls perform on the detections: the       *)
(* analyzer drops a detection contained in a same-type one and returns the *)
(* rest ordered by score; the anonymizer merges intersecting same-type     *)
(* detections in place, drops conflicting ones, merges same-type           *)
(* detections separated by blanks, and replaces the remaining spans right  *)
(* to left by the operator of their entity type or the DEFAULT operator.   *)
(* What the registered recognizers detect in a text is left open: any set  *)
(* of at most MaxDet detections over the text.                             *)
(***************************************************************************)
EXTENDS Integers, Sequences, FiniteSets, TLC

\* ---------------------------------------------------------------- bounds

\* Longest input text of the single-call specification.
MaxLen == 3
\* Most raw detections the recognizers produce for one text.
MaxDet == 2

\* Characters of the input texts: a word character and a blank.
Chars == {"a", " "}

RECURSIVE StringsOfLen(_)
StringsOfLen(n) ==
    IF n = 0 THEN {""}
    ELSE {s \o ch : s \in StringsOfLen(n - 1), ch \in Chars}

StringsUpTo(n) == UNION {StringsOfLen(k) : k \in 0..n}

Min(a, b) == IF a <= b THEN a ELSE b
Max(a, b) == IF a >= b THEN a ELSE b

\* Python's text[a:b] for a, b >= 0: offsets past the end are clipped, and
\* the slice is empty when a >= b.
PySlice(text, a, b) ==
    LET lo == Min(a, Len(text))
        hi == Min(b, Len(text))
    IN  IF lo >= hi THEN "" ELSE SubSeq(text, lo + 1, hi)

\* ------------------------------------------------------------ recognizers

\* The score a recognizer gives its detections, by entity type: the custom
\* SSN pattern (0.9), the statistical DATE_TIME detector it is tuned to beat,
\* and the IP detector, whose entity type has no operator of its own.
RecognizerScore == [US_SSN |-> 90, DATE_TIME |-> 85, IP_ADDRESS |-> 60]

EntityTypes == DOMAIN RecognizerScore

\* The detections (presidio's RecognizerResult: entity_type, start, end,
\* score) possible over a text of length n: 0 <= start < end <= n.
Detections(n) ==
    UNION {{[entity_type |-> t, start |-> s, end |-> e,
             score |-> RecognizerScore[t]] :
                t \in EntityTypes, e \in (s + 1)..n} : s \in 0..(n - 1)}

RECURSIVE SubsetsUpTo(_, _)
SubsetsUpTo(S, k) ==
    IF k = 0 THEN {{}}
    ELSE LET smaller == SubsetsUpTo(S, k - 1)
         IN  smaller \cup {r \cup {d} : r \in smaller, d \in S}

\* The raw detections the registered recognizers may produce for a text.
RawSets(text, maxDet) == SubsetsUpTo(Detections(Len(text)), maxDet)

\* -------------------------------------------------- analysis engine (call)

\* RecognizerResult.contained_in
ContainedIn(a, b) == a.start >= b.start /\ a.end <= b.end

\* The order of the analyzer's output: score descending, then start
\* ascending, then length descending.
Precedes(a, b) ==
    \/ a.score > b.score
    \/ a.score = b.score /\ a.start < b.start
    \/ a.score = b.score /\ a.start = b.start
         /\ (a.end - a.start) > (b.end - b.start)

RECURSIVE SortByScore(_)
SortByScore(S) ==
    IF S = {} THEN <<>>
    ELSE LET first == CHOOSE d \in S : \A o \in S \ {d} : ~Precedes(o, d)
         IN  <<first>> \o SortByScore(S \ {first})

RECURSIVE DropContained(_, _)
DropContained(sorted, kept) ==
    IF sorted = <<>> THEN kept
    ELSE LET r == Head(sorted)
             dup == \E k \in 1..Len(kept) :
                        /\ ContainedIn(r, kept[k])
                        /\ r.entity_type = kept[k].entity_type
         IN  DropContained(Tail(sorted), IF dup THEN kept ELSE Append(kept, r))

\* self.analyzer.analyze(text=text, language="en"): the raw detections of
\* all recognizers, without those contained in a same-type detection, in
\* score order.  Overlapping detections of different types all remain.
AnalyzerOutput(raw) == DropContained(SortByScore(raw), <<>>)

\* ---------------------------------------------- anonymization engine (call)

\* The least index of a set of indices, 0 when it is empty.
FirstIndex(indices) ==
    IF indices = {} THEN 0
    ELSE CHOOSE k \in indices : \A j \in indices : k <= j

RemoveAt(s, k) == SubSeq(s, 1, k - 1) \o SubSeq(s, k + 1, Len(s))

\* list.remove(objs[i]) on a list of detection objects (held by index):
\* the first element equal to it by value goes.
ListRemove(ids, objs, i) ==
    LET k == FirstIndex({n \in 1..Len(ids) : objs[ids[n]] = objs[i]})
    IN  IF k = 0 THEN ids ELSE RemoveAt(ids, k)

\* RecognizerResult.intersects: the number of shared characters.
Intersects(a, b) ==
    IF a.end < b.start \/ b.end < a.start THEN 0
    ELSE Min(a.end, b.end) - Max(a.start, b.start)

\* RecognizerResult.has_conflict: the same span with a score not higher, or
\* a span contained in the other's.
HasConflict(a, b) ==
    IF a.start = b.start /\ a.end = b.end THEN a.score <= b.score
    ELSE b.start <= a.start /\ b.end >= a.end

\* First pass of the anonymizer's conflict handling: a detection that
\* intersects a same-type one is dropped and the other one is widened in
\* place to the union of the two spans, with the higher score.
RECURSIVE MergeSimilar(_, _, _, _)
MergeSimilar(objs, i, others, kept) ==
    IF i > Len(objs) THEN [objs |-> objs, kept |-> kept]
    ELSE LET rest == ListRemove(others, objs, i)
             k == FirstIndex({n \in 1..Len(rest) :
                    /\ objs[rest[n]].entity_type = objs[i].entity_type
                    /\ Intersects(objs[i], objs[rest[n]]) # 0})
         IN  IF k # 0
             THEN LET j == rest[k]
                      wide == [objs[j] EXCEPT
                                 !.start = Min(objs[i].start, @),
                                 !.end = Max(objs[i].end, @),
                                 !.score = Max(objs[i].score, @)]
                  IN  MergeSimilar([objs EXCEPT ![j] = wide], i + 1, rest, kept)
             ELSE MergeSimilar(objs, i + 1, Append(rest, i), Append(kept, i))

\* Second pass: a detection in conflict with one still standing is dropped.
RECURSIVE DropConflicts(_, _, _, _)
DropConflicts(objs, todo, others, unique) ==
    IF todo = <<>> THEN unique
    ELSE LET i == Head(todo)
             rest == ListRemove(others, objs, i)
             conflicted == \E k \in 1..Len(rest) :
                               HasConflict(objs[i], objs[rest[k]])
         IN  IF conflicted
             THEN DropConflicts(objs, Tail(todo), rest, unique)
             ELSE DropConflicts(objs, Tail(todo), Append(rest, i),
                                Append(unique, i))

OnlyBlanks(s) ==
    Len(s) >= 1 /\ \A k \in 1..Len(s) : SubSeq(s, k, k) = " "

\* Third pass: a detection that follows a same-type one with only blanks in
\* between takes over its start (in place) and replaces it.
RECURSIVE MergeBlanks(_, _, _, _, _)
MergeBlanks(text, objs, todo, prev, merged) ==
    IF todo = <<>> THEN [objs |-> objs, kept |-> merged]
    ELSE LET i == Head(todo)
             join == /\ prev # 0
                     /\ objs[prev].entity_type = objs[i].entity_type
                     /\ OnlyBlanks(PySlice(text, objs[prev].end, objs[i].start))
         IN  IF join
             THEN MergeBlanks(text,
                              [objs EXCEPT ![i].start = objs[prev].start],
                              Tail(todo), i,
                              Append(ListRemove(merged, objs, prev), i))
             ELSE MergeBlanks(text, objs, Tail(todo), i, Append(merged, i))

\* The detections in the order they are replaced: start descending.
RECURSIVE ByStartDescending(_, _)
ByStartDescending(objs, ids) ==
    IF ids = {} THEN <<>>
    ELSE LET last == CHOOSE i \in ids :
                        \A j \in ids : objs[j].start <= objs[i].start
         IN  <<last>> \o ByStartDescending(objs, ids \ {last})

\* The engine's own default operator: "replace" without a new value, which
\* writes "<TYPE>".
NoNewValue == ""

\* An engine that writes its own DEFAULT entry over the caller's.
CheckOrAddDefaultOverwrites(operators) ==
    [k \in DOMAIN operators \cup {"DEFAULT"} |->
        IF k = "DEFAULT" THEN NoNewValue ELSE operators[k]]

\* The table the engine works with: the caller's, given a DEFAULT entry if
\* it has none.
CheckOrAddDefaultOperator(operators) ==
    IF "DEFAULT" \in DOMAIN operators THEN operators
    ELSE [k \in DOMAIN operators \cup {"DEFAULT"} |->
            IF k = "DEFAULT" THEN NoNewValue ELSE operators[k]]

\* The caller's table after the call: the missing DEFAULT entry is written
\* into the caller's own dict, unless that dict is empty.
OperatorsAfterAnonymize(operators) ==
    IF DOMAIN operators = {} THEN operators
    ELSE CheckOrAddDefaultOperator(operators)

\* The placeholder written for an entity type: the table's entry for the
\* type, else its DEFAULT entry, else the engine's own "<TYPE>".
OperatorFor(operators, entity_type) ==
    LET table == CheckOrAddDefaultOperator(operators)
        new_value == IF entity_type \in DOMAIN table THEN table[entity_type]
                     ELSE table["DEFAULT"]
    IN  IF new_value = NoNewValue THEN "<" \o entity_type \o ">"
        ELSE new_value

\* The replacement pass, right to left: a span ends where the previous
\* replacement began if it reaches into it.
RECURSIVE ReplaceSpans(_, _, _, _, _)
ReplaceSpans(output, lastStart, todo, objs, operators) ==
    IF todo = <<>> THEN output
    ELSE LET d == objs[Head(todo)]
             upTo == Min(d.end, lastStart)
             next == PySlice(output, 0, d.start)
                       \o OperatorFor(operators, d.entity_type)
                       \o PySlice(output, upTo, Len(output))
         IN  ReplaceSpans(next, d.start, Tail(todo), objs, operators)

SeqRange(s) == {s[k] : k \in 1..Len(s)}

\* self.anonymizer.anonymize(text, analyzer_results, operators): the masked
\* text, the detections that were replaced (items), and the detection
\* objects of the caller's list and the caller's operator table as the
\* engine leaves them.
AnonymizerOutput(text, analyzer_results, operators) ==
    LET n == Len(analyzer_results)
        one == MergeSimilar(analyzer_results, 1, [k \in 1..n |-> k], <<>>)
        unique == DropConflicts(one.objs, one.kept, one.kept, <<>>)
        two == MergeBlanks(text, one.objs, unique, 0, <<>>)
        order == ByStartDescending(two.objs, SeqRange(two.kept))
    IN  [text |-> ReplaceSpans(text, Len(text), order, two.objs, operators),
         items |-> [k \in 1..Len(order) |-> two.objs[order[Len(order) + 1 - k]]],
         analyzer_results |-> two.objs,
         operators |-> OperatorsAfterAnonymize(operators)]

\* ------------------------------------------------------------ the service

\* An operator table without the DEFAULT entry.
BuildOperatorsNoDefault ==
    [PERSON |-> "<PERSON>", PHONE_NUMBER |-> "<PHONE>",
     EMAIL_ADDRESS |-> "<EMAIL>", US_SSN |-> "<SSN>", SSN |-> "<SSN>",
     US_ITIN |-> "<ITIN>", US_PASSPORT |-> "<PHI>", DATE_TIME |-> "<DATE>"]

\* _build_operators: entity type -> placeholder of its "replace" operator.
BuildOperators ==
    [DEFAULT |-> "<PHI>", PERSON |-> "<PERSON>", PHONE_NUMBER |-> "<PHONE>",
     EMAIL_ADDRESS |-> "<EMAIL>", US_SSN |-> "<SSN>", SSN |-> "<SSN>",
     US_ITIN |-> "<ITIN>", US_PASSPORT |-> "<PHI>", DATE_TIME |-> "<DATE>",
     LOCATION |-> "<LOCATION>", MEDICAL_RECORD_NUMBER |-> "<MRN>",
     ORGANIZATION |-> "<ORGANIZATION>", URL |-> "<URL>",
     CREDIT_CARD |-> "<CREDIT_CARD>", ZIP_CODE |-> "<ZIP>",
     VEHICLE_VIN |-> "<VIN>", LICENSE_PLATE |-> "<LICENSE_PLATE>",
     HEALTH_PLAN_ID |-> "<HPN>", DEVICE_IDENTIFIER |-> "<DEVICE>"]

\* The values deidentify may be given: a string, None, an object with a
\* textual representation (value is str(x)), an object whose __str__ raises.
StrInput(s) == [kind |-> "str", value |-> s]
NoneInput == [kind |-> "none", value |-> ""]
ObjInput(s) == [kind |-> "object", value |-> s]
UnprintableInput == [kind |-> "unprintable", value |-> ""]

Inputs(maxLen) ==
    {StrInput(s) : s \in StringsUpTo(maxLen)}
        \cup {ObjInput(s) : s \in StringsUpTo(maxLen)}
        \cup {NoneInput, UnprintableInput}

\* The exception types the engines (and a __str__) may raise.
ErrorTypes == {"Exception", "ValueError"}
NoExc == [type |-> "", message |-> ""]

NoResult == [masked_text |-> "", entities_found |-> <<>>, made |-> FALSE]
Result(masked, found) ==
    [masked_text |-> masked, entities_found |-> found, made |-> TRUE]

\* isinstance(text, str)
IsString(x) == x.kind = "str"

\* Normalization that takes str() of None as well.
NormalizeNoneAsText(x) ==
    IF IsString(x) THEN x.value
    ELSE IF x.kind # "none" THEN x.value ELSE "None"

\* Normalization that drops every non-string input.
NormalizeDropsNonString(x) == IF IsString(x) THEN x.value ELSE ""

\* text = str(text) if text is not None else ""   (for a non-string)
Normalize(x) ==
    IF IsString(x) THEN x.value
    ELSE IF x.kind # "none" THEN x.value ELSE ""

\* No short circuit: the empty text goes on to the engines.
ShortCircuitNever(text) == FALSE

\* if not text: the empty-input short circuit.
ShortCircuit(text) == text = ""

\* The result of the short circuit.
EmptyResult == Result("", <<>>)

\* found_entities: one entry per analyzer result, sliced from the text.
FoundEntities(text, analyzer_results) ==
    [k \in 1..Len(analyzer_results) |->
        [text |-> PySlice(text, analyzer_results[k].start,
                          analyzer_results[k].end),
         entity_type |-> analyzer_results[k].entity_type,
         start |-> analyzer_results[k].start,
         end |-> analyzer_results[k].end,
         score |-> analyzer_results[k].score]]

\* An except branch that hands the text back.
FailureResultEchoesText(text) == Result(text, <<>>)

\* The except branch's result; the text is in scope and is not used.
FailureResult(text) == Result("[PROCESSING FAILED]", <<>>)

\* logger.warning on a non-string input.
NonStringWarning ==
    [level |-> "WARNING",
     message |-> "De-identification called with non-string input."]

\* logger.info at the end of the happy path.
CompleteInfo(found) ==
    [level |-> "INFO",
     message |->
        IF Len(found) > 0
        THEN "De-identification complete: Found " \o ToString(Len(found))
                \o " entities."
        ELSE "De-identification complete: No entities found."]

\* An error record that formats the exception itself.
FailureErrorWithMessage(e) ==
    [level |-> "ERROR",
     message |-> "De-identification process failed. Error: " \o e.message]

\* logger.error in the except branch: type(e).__name__ only.
FailureError(e) ==
    [level |-> "ERROR",
     message |-> "De-identification process failed. Error type: " \o e.type]

\* ------------------------------------------------- the recognizer registry

\* A recognizer as the registry holds it: its name, the entity type it
\* supports, and whether one of this module's factories made it.
Recognizer(name, entity, custom) ==
    [name |-> name, entity |-> entity, custom |-> custom]

\* registry.load_predefined_recognizers: the library's detectors, named by
\* their classes.
PredefinedRecognizers ==
    <<Recognizer("SpacyRecognizer", "PERSON", FALSE),
      Recognizer("DateRecognizer", "DATE_TIME", FALSE),
      Recognizer("UsSsnRecognizer", "US_SSN", FALSE),
      Recognizer("UsItinRecognizer", "US_ITIN", FALSE),
      Recognizer("UsPassportRecognizer", "US_PASSPORT", FALSE),
      Recognizer("PhoneRecognizer", "PHONE_NUMBER", FALSE),
      Recognizer("EmailRecognizer", "EMAIL_ADDRESS", FALSE),
      Recognizer("UsLicenseRecognizer", "US_DRIVER_LICENSE", FALSE),
      Recognizer("IpRecognizer", "IP_ADDRESS", FALSE),
      Recognizer("UrlRecognizer", "URL", FALSE),
      Recognizer("CreditCardRecognizer", "CREDIT_CARD", FALSE)>>

\* The names given to registry.remove_recognizer, in the order of the calls.
RemovedRecognizers ==
    <<"UsSsnRecognizer", "UsItinRecognizer", "UsPassportRecognizer">>

create_high_score_ssn_recognizer ==
    Recognizer("High Score SSN Recognizer", "US_SSN", TRUE)

create_high_score_passport_recognizer ==
    Recognizer("High Score Passport Recognizer", "US_PASSPORT", TRUE)

create_itin_recognizer == Recognizer("Custom ITIN Recognizer", "US_ITIN", TRUE)

create_custom_mrn_recognizer ==
    Recognizer("Custom MRN Recognizer", "MEDICAL_RECORD_NUMBER", TRUE)

\* The module-level list of the service's own recognizers.
DEFAULT_HIPAA_RECOGNIZERS ==
    <<create_high_score_ssn_recognizer,
      create_high_score_passport_recognizer,
      Recognizer("PhoneRecognizer", "PHONE_NUMBER", FALSE),
      Recognizer("EmailRecognizer", "EMAIL_ADDRESS", FALSE),
      Recognizer("UsLicenseRecognizer", "US_DRIVER_LICENSE", FALSE),
      Recognizer("IpRecognizer", "IP_ADDRESS", FALSE),
      Recognizer("UrlRecognizer", "URL", FALSE),
      Recognizer("CreditCardRecognizer", "CREDIT_CARD", FALSE)>>

\* A removal that leaves the registry as it is.
RemoveRecognizerKeepsAll(recognizers, name) == recognizers

\* registry.remove_recognizer(name): every recognizer of that name goes.
RemoveRecognizer(recognizers, name) ==
    SelectSeq(recognizers, LAMBDA r : r.name # name)

\* registry.add_recognizer(recognizer): appended to the list.
AddRecognizer(recognizers, recognizer) == Append(recognizers, recognizer)

\* The lists a caller may pass as additional_recognizers.
MaxAdditional == 2

CallerRecognizers == {create_itin_recognizer, create_custom_mrn_recognizer}

RECURSIVE ListsOfLen(_, _)
ListsOfLen(S, n) ==
    IF n = 0 THEN {<<>>}
    ELSE {Append(l, x) : l \in ListsOfLen(S, n - 1), x \in S}

AdditionalLists ==
    UNION {ListsOfLen(CallerRecognizers, n) : n \in 0..MaxAdditional}

\* The registry a construction without failure leaves.
RECURSIVE RemoveAll(_, _)
RemoveAll(recognizers, names) ==
    IF names = <<>> THEN recognizers
    ELSE RemoveAll(RemoveRecognizer(recognizers, Head(names)), Tail(names))

BuiltRegistry(additional_recognizers) ==
    RemoveAll(PredefinedRecognizers, RemovedRecognizers)
        \o DEFAULT_HIPAA_RECOGNIZERS \o additional_recognizers

\* self.operators before __init__ has assigned it.
NoOperators == <<>>

CallIds == {1, 2}

VARIABLES
    ctor,               \* the constructor's position
    additional,         \* the additional_recognizers the constructor was given
    registry,           \* registry.recognizers
    step,               \* the next removal, or the next element of the add loop
    removal_raised,     \* the inner try caught an exception of a removal
    build_exc,          \* the exception _build_analyzer re-raised
    operators,          \* self.operators
    recognized,         \* what the recognizers detect, per text analysed so far
    pc,                 \* each call's position in deidentify
    arg,                \* each call's argument
    text,               \* the local text after normalization
    analyzer_results,   \* the list returned by analyze (objects shared with anonymize)
    anonymized_result,  \* the anonymizer's result
    result,             \* the value returned
    exc,                \* the exception caught, or the one that escaped
    log,                \* the records the call wrote to the logger
    engine_calls        \* the engine invocations the call made, with their text

service == <<ctor, additional, registry, step, removal_raised, build_exc>>

vars == <<service, operators, recognized, pc, arg, text, analyzer_results,
          anonymized_result, result, exc, log, engine_calls>>

NoAnonymized == [text |-> "", items |-> <<>>]

\* No call of deidentify has been made.
NoCalls ==
    /\ recognized = <<>>
    /\ pc = [c \in CallIds |-> "idle"]
    /\ arg = [c \in CallIds |-> NoneInput]
    /\ text = [c \in CallIds |-> ""]
    /\ analyzer_results = [c \in CallIds |-> <<>>]
    /\ anonymized_result = [c \in CallIds |-> NoAnonymized]
    /\ result = [c \in CallIds |-> NoResult]
    /\ exc = [c \in CallIds |-> NoExc]
    /\ log = [c \in CallIds |-> <<>>]
    /\ engine_calls = [c \in CallIds |-> <<>>]

\* A service as HIPAAMaskingService() has constructed it.
Init ==
    /\ ctor = "ready"
    /\ additional = <<>>
    /\ registry = BuiltRegistry(<<>>)
    /\ step = 1
    /\ removal_raised = FALSE
    /\ build_exc = NoExc
    /\ operators = BuildOperators
    /\ NoCalls

\* deidentify(x), up to the try: normalization and the short circuit.
\* str(x) is outside the try, so an exception of __str__ leaves the call.
Call(c, x) ==
    /\ ctor = "ready"
    /\ pc[c] = "idle"
    /\ arg' = [arg EXCEPT ![c] = x]
    /\ log' = [log EXCEPT ![c] =
                 IF IsString(x) THEN <<>> ELSE <<NonStringWarning>>]
    /\ IF x.kind = "unprintable"
       THEN /\ \E e \in ErrorTypes :
                  exc' = [exc EXCEPT ![c] = [type |-> e, message |-> ""]]
            /\ pc' = [pc EXCEPT ![c] = "raised"]
            /\ UNCHANGED <<text, result>>
       ELSE /\ text' = [text EXCEPT ![c] = Normalize(x)]
            /\ IF ShortCircuit(Normalize(x))
               THEN /\ result' = [result EXCEPT ![c] = EmptyResult]
                    /\ pc' = [pc EXCEPT ![c] = "returned"]
               ELSE /\ pc' = [pc EXCEPT ![c] = "analyze"]
                    /\ UNCHANGED result
            /\ UNCHANGED exc
    /\ UNCHANGED <<service, operators, recognized, analyzer_results, anonymized_result,
                   engine_calls>>

\* analyzer_results = self.analyzer.analyze(...) returns.
AnalyzeReturns(c, raws) ==
    /\ pc[c] = "analyze"
    /\ \E raw \in raws :
          /\ text[c] \in DOMAIN recognized => raw = recognized[text[c]]
          /\ recognized' =
                [t \in DOMAIN recognized \cup {text[c]} |->
                    IF t = text[c] THEN raw ELSE recognized[t]]
          /\ analyzer_results' =
                [analyzer_results EXCEPT ![c] = AnalyzerOutput(raw)]
    /\ engine_calls' = [engine_calls EXCEPT
          ![c] = Append(@, [engine |-> "analyze", text |-> text[c]])]
    /\ pc' = [pc EXCEPT ![c] = "anonymize"]
    /\ UNCHANGED <<service, operators, arg, text, anonymized_result, result, exc, log>>

\* self.analyzer.analyze(...) raises; the message may quote the text.
AnalyzeRaises(c) ==
    /\ pc[c] = "analyze"
    /\ \E e \in ErrorTypes :
          exc' = [exc EXCEPT ![c] = [type |-> e, message |-> text[c]]]
    /\ engine_calls' = [engine_calls EXCEPT
          ![c] = Append(@, [engine |-> "analyze", text |-> text[c]])]
    /\ pc' = [pc EXCEPT ![c] = "except"]
    /\ UNCHANGED <<service, operators, recognized, arg, text, analyzer_results,
                   anonymized_result, result, log>>

\* anonymized_result = self.anonymizer.anonymize(...) returns; the engine
\* has worked on the caller's detection objects.
AnonymizeReturns(c) ==
    /\ pc[c] = "anonymize"
    /\ LET out == AnonymizerOutput(text[c], analyzer_results[c], operators)
       IN  /\ anonymized_result' = [anonymized_result EXCEPT
                  ![c] = [text |-> out.text, items |-> out.items]]
           /\ analyzer_results' =
                  [analyzer_results EXCEPT ![c] = out.analyzer_results]
           /\ operators' = out.operators
    /\ engine_calls' = [engine_calls EXCEPT
          ![c] = Append(@, [engine |-> "anonymize", text |-> text[c]])]
    /\ pc' = [pc EXCEPT ![c] = "build"]
    /\ UNCHANGED <<service, recognized, arg, text, result, exc, log>>

\* self.anonymizer.anonymize(...) raises.
AnonymizeRaises(c) ==
    /\ pc[c] = "anonymize"
    /\ \E e \in ErrorTypes :
          exc' = [exc EXCEPT ![c] = [type |-> e, message |-> text[c]]]
    /\ engine_calls' = [engine_calls EXCEPT
          ![c] = Append(@, [engine |-> "anonymize", text |-> text[c]])]
    /\ pc' = [pc EXCEPT ![c] = "except"]
    /\ UNCHANGED <<service, operators, recognized, arg, text, analyzer_results,
                   anonymized_result, result, log>>

\* A try that slices the findings' text out of the masked text.
BuildResultFromMasked(c) ==
    /\ pc[c] = "build"
    /\ LET found == FoundEntities(anonymized_result[c].text, analyzer_results[c])
       IN  /\ result' = [result EXCEPT
                  ![c] = Result(anonymized_result[c].text, found)]
           /\ log' = [log EXCEPT ![c] = Append(@, CompleteInfo(found))]
    /\ pc' = [pc EXCEPT ![c] = "returned"]
    /\ UNCHANGED <<service, operators, recognized, arg, text, analyzer_results,
                   anonymized_result, exc, engine_calls>>

\* The rest of the try: found_entities, the result, the info record, return.
BuildResult(c) ==
    /\ pc[c] = "build"
    /\ LET found == FoundEntities(text[c], analyzer_results[c])
       IN  /\ result' = [result EXCEPT
                  ![c] = Result(anonymized_result[c].text, found)]
           /\ log' = [log EXCEPT ![c] = Append(@, CompleteInfo(found))]
    /\ pc' = [pc EXCEPT ![c] = "returned"]
    /\ UNCHANGED <<service, operators, recognized, arg, text, analyzer_results,
                   anonymized_result, exc, engine_calls>>

\* except Exception as e: the error record and the sentinel result.
HandleFailure(c) ==
    /\ pc[c] = "except"
    /\ log' = [log EXCEPT ![c] = Append(@, FailureError(exc[c]))]
    /\ result' = [result EXCEPT ![c] = FailureResult(text[c])]
    /\ pc' = [pc EXCEPT ![c] = "returned"]
    /\ UNCHANGED <<service, operators, recognized, arg, text, analyzer_results,
                   anonymized_result, exc, engine_calls>>

\* One call of deidentify on the service.
Next ==
    \/ \E x \in Inputs(MaxLen) : Call(1, x)
    \/ AnalyzeReturns(1, RawSets(text[1], MaxDet))
    \/ AnalyzeRaises(1)
    \/ AnonymizeReturns(1)
    \/ AnonymizeRaises(1)
    \/ BuildResult(1)
    \/ HandleFailure(1)

Spec == Init /\ [][Next]_vars

\* Two calls of deidentify on the same service, interleaved, over shorter
\* texts in which the recognizers detect at most one span.
PairMaxLen == 1

SingleDetections(t) == {{}} \cup {{d} : d \in Detections(Len(t))}

PairNext ==
    \E c \in CallIds :
        \/ \E x \in Inputs(PairMaxLen) : Call(c, x)
        \/ AnalyzeReturns(c, SingleDetections(text[c]))
        \/ AnalyzeRaises(c)
        \/ AnonymizeReturns(c)
        \/ AnonymizeRaises(c)
        \/ BuildResult(c)
        \/ HandleFailure(c)

SpecPair == Init /\ [][PairNext]_vars

\* One call of deidentify whose text may be the very string the except
\* branch returns, with at most one span detected in it.
SentinelText == "[PROCESSING FAILED]"

SentinelInputs == Inputs(PairMaxLen) \cup {StrInput(SentinelText)}

SentinelNext ==
    \/ \E x \in SentinelInputs : Call(1, x)
    \/ AnalyzeReturns(1, SingleDetections(text[1]))
    \/ AnalyzeRaises(1)
    \/ AnonymizeReturns(1)
    \/ AnonymizeRaises(1)
    \/ BuildResult(1)
    \/ HandleFailure(1)

SpecSentinel == Init /\ [][SentinelNext]_vars

\* ------------------------------------------------------------ construction

calls == <<recognized, pc, arg, text, analyzer_results, anonymized_result,
           result, exc, log, engine_calls>>

\* Before HIPAAMaskingService(...) is called.
InitBuild ==
    /\ ctor = "new"
    /\ additional = <<>>
    /\ registry = <<>>
    /\ step = 1
    /\ removal_raised = FALSE
    /\ build_exc = NoExc
    /\ operators = NoOperators
    /\ NoCalls

\* HIPAAMaskingService(additional_recognizers): __init__ up to the empty
\* registry of _build_analyzer.
Construct(additional_recognizers) ==
    /\ ctor = "new"
    /\ additional' = additional_recognizers
    /\ registry' = <<>>
    /\ ctor' = "nlp"
    /\ UNCHANGED <<step, removal_raised, build_exc, operators, calls>>

\* provider.create_engine() returns.
CreateNlpEngine ==
    /\ ctor = "nlp"
    /\ ctor' = "load"
    /\ UNCHANGED <<additional, registry, step, removal_raised, build_exc,
                   operators, calls>>

\* registry.load_predefined_recognizers(nlp_engine=nlp_engine) returns.
LoadPredefined ==
    /\ ctor = "load"
    /\ registry' = registry \o PredefinedRecognizers
    /\ step' = 1
    /\ ctor' = "remove"
    /\ UNCHANGED <<additional, removal_raised, build_exc, operators, calls>>

\* The next registry.remove_recognizer(name) of the inner try returns.
RemoveDefault ==
    /\ ctor = "remove"
    /\ registry' = RemoveRecognizer(registry, RemovedRecognizers[step])
    /\ IF step = Len(RemovedRecognizers)
       THEN ctor' = "defaults" /\ step' = 1
       ELSE ctor' = ctor /\ step' = step + 1
    /\ UNCHANGED <<additional, removal_raised, build_exc, operators, calls>>

\* The next registry.remove_recognizer(name) raises: the inner except logs
\* a warning, the removals after it are skipped, the adds follow.
RemoveRaises ==
    /\ ctor = "remove"
    /\ removal_raised' = TRUE
    /\ step' = 1
    /\ ctor' = "defaults"
    /\ UNCHANGED <<additional, registry, build_exc, operators, calls>>

\* One turn of: for recognizer in DEFAULT_HIPAA_RECOGNIZERS.
AddDefault ==
    /\ ctor = "defaults"
    /\ registry' = AddRecognizer(registry, DEFAULT_HIPAA_RECOGNIZERS[step])
    /\ IF step = Len(DEFAULT_HIPAA_RECOGNIZERS)
       THEN /\ ctor' = IF additional = <<>> THEN "engine" ELSE "additional"
            /\ step' = 1
       ELSE ctor' = ctor /\ step' = step + 1
    /\ UNCHANGED <<additional, removal_raised, build_exc, operators, calls>>

\* One turn of: for recognizer in additional_recognizers.
AddAdditional ==
    /\ ctor = "additional"
    /\ registry' = AddRecognizer(registry, additional[step])
    /\ IF step = Len(additional)
       THEN ctor' = "engine" /\ step' = 1
       ELSE ctor' = ctor /\ step' = step + 1
    /\ UNCHANGED <<additional, removal_raised, build_exc, operators, calls>>

\* AnalyzerEngine(...) returns, then the rest of __init__: the anonymizer
\* and the operator table.
CreateAnalyzerEngine ==
    /\ ctor = "engine"
    /\ operators' = BuildOperators
    /\ ctor' = "ready"
    /\ UNCHANGED <<additional, registry, step, removal_raised, build_exc,
                   calls>>

\* The stages of _build_analyzer whose exceptions reach the outer except.
FatalStages == {"nlp", "load", "defaults", "additional", "engine"}

\* An outer except that logs and lets __init__ go on.
BuildFailureIgnored ==
    /\ ctor \in FatalStages
    /\ \E e \in ErrorTypes : build_exc' = [type |-> e, message |-> ""]
    /\ operators' = BuildOperators
    /\ ctor' = "ready"
    /\ UNCHANGED <<additional, registry, step, removal_raised, calls>>

\* A step of the outer try raises: logger.critical, then raise; __init__
\* does not return.
BuildFails ==
    /\ ctor \in FatalStages
    /\ \E e \in ErrorTypes : build_exc' = [type |-> e, message |-> ""]
    /\ ctor' = "failed"
    /\ UNCHANGED <<additional, registry, step, removal_raised, operators,
                   calls>>

\* The construction of one service, and one call of deidentify on it.
BuildNext ==
    \/ \E recs \in AdditionalLists : Construct(recs)
    \/ CreateNlpEngine
    \/ LoadPredefined
    \/ RemoveDefault
    \/ RemoveRaises
    \/ AddDefault
    \/ AddAdditional
    \/ CreateAnalyzerEngine
    \/ BuildFails
    \/ \E x \in Inputs(PairMaxLen) : Call(1, x)
    \/ AnalyzeReturns(1, SingleDetections(text[1]))
    \/ AnalyzeRaises(1)
    \/ AnonymizeReturns(1)
    \/ AnonymizeRaises(1)
    \/ BuildResult(1)
    \/ HandleFailure(1)

SpecBuild == InitBuild /\ [][BuildNext]_vars

\* ------------------------------------------------------------- properties

Returned(c) == pc[c] = "returned"
\* An engine raised in call c (the exception was caught by the try).
EngineFailed(c) == exc[c] # NoExc /\ engine_calls[c] # <<>>
\* Call c went through both engines and the rest of the try.
Succeeded(c) == Returned(c) /\ exc[c] = NoExc /\ engine_calls[c] # <<>>

\* C1: when the analysis or the anonymization engine raises, deidentify
\* does not raise and returns exactly masked_text = "[PROCESSING FAILED]",
\* entities_found = []: neither the text nor any finding made before the
\* failure is in the result.
C1_FailureReturnsSentinel ==
    \A c \in CallIds :
        EngineFailed(c) =>
            /\ pc[c] \in {"except", "returned"}
            /\ Returned(c) =>
                  /\ result[c].made
                  /\ result[c].masked_text = "[PROCESSING FAILED]"
                  /\ result[c].entities_found = <<>>

\* A call whose analysis found something and whose anonymization raised has
\* returned.
C1_Witness ==
    /\ Returned(1)
    /\ EngineFailed(1)
    /\ Len(engine_calls[1]) = 2
    /\ analyzer_results[1] # <<>>
    /\ result[1].made

ErrorRecords(records) == SelectSeq(records, LAMBDA r : r.level = "ERROR")

\* C2: a failing call writes exactly one error record, and two failing calls
\* with the same error type write the same error record whatever their
\* texts; their whole logs are equal when both were given strings.
C2_FailureLogDependsOnTypeOnly ==
    \A c1, c2 \in CallIds :
        (/\ Returned(c1) /\ EngineFailed(c1)
         /\ Returned(c2) /\ EngineFailed(c2)
         /\ exc[c1].type = exc[c2].type) =>
            /\ Len(ErrorRecords(log[c1])) = 1
            /\ ErrorRecords(log[c1]) = ErrorRecords(log[c2])
            /\ (IsString(arg[c1]) /\ IsString(arg[c2])) => log[c1] = log[c2]

\* Two calls on different texts have failed with the same error type.
C2_Witness ==
    /\ Returned(1) /\ EngineFailed(1)
    /\ Returned(2) /\ EngineFailed(2)
    /\ IsString(arg[1]) /\ IsString(arg[2])
    /\ text[1] # text[2]
    /\ exc[1].type = exc[2].type

\* C3: for every input value no exception leaves deidentify.
C3_NoExceptionEscapes ==
    \A c \in CallIds : pc[c] # "raised"

\* C4: every entry of entities_found of a successful call has
\* text = text[start:end] of the normalized input, with start and end
\* offsets into that text.
C4_SpanFidelity ==
    \A c \in CallIds :
        Succeeded(c) =>
            \A k \in 1..Len(result[c].entities_found) :
                LET e == result[c].entities_found[k]
                IN  /\ 0 <= e.start /\ e.start < e.end /\ e.end <= Len(text[c])
                    /\ e.text = SubSeq(Normalize(arg[c]), e.start + 1, e.end)

\* A successful call reported a finding that does not start the text, and
\* the masked text differs from the text.
C4_Witness ==
    /\ Succeeded(1)
    /\ \E k \in 1..Len(result[1].entities_found) :
          result[1].entities_found[k].start > 0
    /\ result[1].masked_text # text[1]

\* C5: the entries of entities_found are sorted by start and pairwise
\* non-overlapping: each ends no later than the next starts.
C5_FindingsDisjointSorted ==
    \A c \in CallIds :
        Returned(c) =>
            \A k \in 1..(Len(result[c].entities_found) - 1) :
                result[c].entities_found[k].end
                    <= result[c].entities_found[k + 1].start

Overlap(a, b) == a.start < b.end /\ b.start < a.end

AsDetection(e) ==
    [entity_type |-> e.entity_type, start |-> e.start, end |-> e.end,
     score |-> e.score]

Reported(c) ==
    {AsDetection(result[c].entities_found[k]) :
        k \in 1..Len(result[c].entities_found)}

\* C6: when the custom SSN pattern and a lower-score detector detect
\* overlapping ranges, the SSN detection is the one reported and replaced,
\* and the lower-score detection is dropped.
C6_CustomPatternWins ==
    \A c \in CallIds :
        Succeeded(c) =>
            \A s, d \in recognized[text[c]] :
                (/\ s.entity_type = "US_SSN"
                 /\ d.score < s.score
                 /\ Overlap(s, d)) =>
                    /\ s \in Reported(c)
                    /\ d \notin Reported(c)
                    /\ s \in SeqRange(anonymized_result[c].items)

\* C7: deidentify("") returns the empty result and invokes no engine.
C7_EmptyStringShortCircuit ==
    \A c \in CallIds :
        (pc[c] # "idle" /\ arg[c] = StrInput("")) =>
            /\ Returned(c)
            /\ result[c] = Result("", <<>>)
            /\ engine_calls[c] = <<>>
            /\ exc[c] = NoExc

\* deidentify("") has returned.
C7_Witness ==
    Returned(1) /\ arg[1] = StrInput("") /\ result[1].made

\* C8 as stated: every absent or non-string input gets the empty result
\* (read for the calls in which no engine failed).
C8_NonStringGivesEmptyResult ==
    \A c \in CallIds :
        (Returned(c) /\ ~IsString(arg[c]) /\ exc[c] = NoExc) =>
            result[c] = Result("", <<>>)

\* C8 as amended: None, and a non-string input whose textual representation
\* is empty, get the empty result without any engine being invoked.
C8_AbsentGivesEmptyResult ==
    \A c \in CallIds :
        (/\ pc[c] # "idle"
         /\ arg[c] \in {NoneInput, ObjInput("")}) =>
            /\ Returned(c)
            /\ result[c] = Result("", <<>>)
            /\ engine_calls[c] = <<>>

\* deidentify(None) has returned, after its warning.
C8_Witness ==
    /\ Returned(1) /\ arg[1] = NoneInput /\ result[1].made
    /\ log[1] = <<NonStringWarning>>

\* C9: a call on a non-string object x and a call on the string str(x), with
\* the engines behaving alike (the same error type, or none), return the
\* same result; when str(x) is not empty the engines of the first are
\* invoked on str(x).
C9_NonStringProcessedAsItsText ==
    \A c1, c2 \in CallIds :
        (/\ Returned(c1) /\ Returned(c2)
         /\ arg[c1].kind = "object"
         /\ arg[c2] = StrInput(arg[c1].value)
         /\ exc[c1].type = exc[c2].type) =>
            /\ result[c1] = result[c2]
            /\ arg[c1].value # "" =>
                  /\ engine_calls[c1] # <<>>
                  /\ \A k \in 1..Len(engine_calls[c1]) :
                        engine_calls[c1][k].text = arg[c1].value

\* A call on an object and a call on its text have both succeeded with a
\* finding.
C9_Witness ==
    /\ Succeeded(1) /\ Succeeded(2)
    /\ arg[1].kind = "object"
    /\ arg[2] = StrInput(arg[1].value)
    /\ result[1].entities_found # <<>>

\* The placeholder the table gives an entity type: its own entry, else
\* "<PHI>", the DEFAULT entry.
TablePlaceholder(entity_type) ==
    IF entity_type \in DOMAIN operators THEN operators[entity_type]
    ELSE "<PHI>"

\* The text with the spans of the items (in start order) replaced by their
\* placeholders, built left to right over the offsets of the text.
RECURSIVE SpliceLeftToRight(_, _, _, _)
SpliceLeftToRight(txt, items, k, cursor) ==
    IF k > Len(items) THEN PySlice(txt, cursor, Len(txt))
    ELSE PySlice(txt, cursor, items[k].start)
            \o TablePlaceholder(items[k].entity_type)
            \o SpliceLeftToRight(txt, items, k + 1, Max(cursor, items[k].end))

\* The "<...>" tokens of a masked text, left to right (the input texts hold
\* no angle bracket).
RECURSIVE PlaceholdersIn(_, _)
PlaceholdersIn(masked, from) ==
    IF from > Len(masked) THEN <<>>
    ELSE IF SubSeq(masked, from, from) = "<"
    THEN LET close == CHOOSE j \in from..Len(masked) :
                         /\ SubSeq(masked, j, j) = ">"
                         /\ \A i \in from..(j - 1) : SubSeq(masked, i, i) # ">"
         IN  <<SubSeq(masked, from, close)>> \o PlaceholdersIn(masked, close + 1)
    ELSE PlaceholdersIn(masked, from + 1)

Disjoint(items) ==
    \A k \in 1..(Len(items) - 1) : items[k].end <= items[k + 1].start

\* C10: the placeholders of masked_text are, in order, those the operator
\* table gives the entity types of the accepted detections, "<PHI>" (the
\* DEFAULT entry) for a type without an entry; when the accepted detections
\* are disjoint, masked_text is the text with exactly their spans replaced;
\* the table always has the DEFAULT entry.
C10_PlaceholdersFromOperatorTable ==
    /\ "DEFAULT" \in DOMAIN operators
    /\ operators["DEFAULT"] = "<PHI>"
    /\ \A c \in CallIds :
          Succeeded(c) =>
              LET items == anonymized_result[c].items
              IN  /\ PlaceholdersIn(result[c].masked_text, 1) =
                        [k \in 1..Len(items) |->
                            TablePlaceholder(items[k].entity_type)]
                  /\ Disjoint(items) =>
                        result[c].masked_text =
                            SpliceLeftToRight(text[c], items, 1, 0)

\* A successful call replaced a detection whose type (IP_ADDRESS) has no
\* entry in the table, together with one that has.
C10_Witness ==
    /\ Succeeded(1)
    /\ \E k \in 1..Len(anonymized_result[1].items) :
          anonymized_result[1].items[k].entity_type \notin DOMAIN operators
    /\ \E k \in 1..Len(anonymized_result[1].items) :
          anonymized_result[1].items[k].entity_type \in DOMAIN operators

\* C11: the result alone tells the three outcomes apart: masked_text is
\* "[PROCESSING FAILED]" exactly when an engine failed; otherwise an empty
\* entities_found goes with masked_text equal to the text, and a non-empty
\* entities_found with masked_text different from the text.
C11_OutcomesDistinguishable ==
    \A c \in CallIds :
        (Returned(c) /\ result[c].made) =>
            /\ result[c].masked_text = SentinelText <=> EngineFailed(c)
            /\ ~EngineFailed(c) =>
                  /\ result[c].entities_found = <<>> =>
                        result[c].masked_text = text[c]
                  /\ result[c].entities_found # <<>> =>
                        result[c].masked_text # text[c]


\* The recognizers added so far by the two loops of _build_analyzer.
AddsDone ==
    CASE ctor = "defaults" -> step - 1
      [] ctor = "additional" -> Len(DEFAULT_HIPAA_RECOGNIZERS) + step - 1
      [] ctor \in {"engine", "ready"} ->
            Len(DEFAULT_HIPAA_RECOGNIZERS) + Len(additional)
      [] OTHER -> 0

\* The names registered before the first add.
LoadedNames == {registry[k].name : k \in 1..(Len(registry) - AddsDone)}

\* The added recognizers are, in this order, the service's own defaults and
\* then the caller's; a constructed service has them all.
AddedInOrder ==
    /\ AddsDone <= Len(registry)
    /\ SubSeq(registry, Len(registry) - AddsDone + 1, Len(registry))
          = SubSeq(DEFAULT_HIPAA_RECOGNIZERS \o additional, 1, AddsDone)
    /\ ctor = "ready" =>
          /\ \A k \in 1..Len(additional) : additional[k] \in SeqRange(registry)
          /\ create_high_score_ssn_recognizer \in SeqRange(registry)

C13_RemovedDetectorsSuperseded ==
    (ctor = "ready" /\ ~removal_raised) =>
        \A entity \in {"US_SSN", "US_ITIN", "US_PASSPORT"} :
            \E k \in 1..Len(registry) :
                registry[k].custom /\ registry[k].entity = entity

\* C14: no two entries of the registry have the same name, during a
\* construction in which no removal failed and afterwards.
C14_RecognizerNamesUnique ==
    ~removal_raised =>
        \A j, k \in 1..Len(registry) :
            registry[j].name = registry[k].name => j = k

\* C15: an exception of the outer try of _build_analyzer leaves the
\* constructor (no service exists: its attributes are unassigned and no
\* deidentify call is made); an exception of a removal does not: the
\* construction goes on to the adds, and a service constructed after it has
\* the service's own and the caller's recognizers at the end of its registry.
C15_BuildFailureIsFatal ==
    /\ build_exc # NoExc <=> ctor = "failed"
    /\ ctor # "ready" =>
          /\ operators = NoOperators
          /\ \A c \in CallIds : pc[c] = "idle"
    /\ removal_raised =>
          ctor \in {"defaults", "additional", "engine", "ready", "failed"}
    /\ ctor = "ready" =>
          /\ operators = BuildOperators
          /\ Len(registry) >= AddsDone
          /\ SubSeq(registry, Len(registry) - AddsDone + 1, Len(registry))
                = DEFAULT_HIPAA_RECOGNIZERS \o additional

\* A removal raised, every recognizer was added all the same, and then the
\* construction of the analysis engine raised.
C15_Witness ==
    /\ ctor = "failed"
    /\ removal_raised
    /\ Len(additional) = 2
    /\ Len(registry) = Len(PredefinedRecognizers)
                          + Len(DEFAULT_HIPAA_RECOGNIZERS) + Len(additional)

\* What call c returns when it is the only call on a newly constructed
\* service, given its argument, what the recognizers detect in its text
\* and whether an engine fails.
ResultAlone(c) ==
    LET t == Normalize(arg[c])
    IN  IF ShortCircuit(t) THEN EmptyResult
        ELSE IF exc[c] # NoExc THEN FailureResult(t)
        ELSE LET out == AnonymizerOutput(t, AnalyzerOutput(recognized[t]),
                                         BuildOperators)
             IN  Result(out.text, FoundEntities(t, out.analyzer_results))

\* C16: no step of a deidentify call (successful, short-circuited or
\* failing) changes the registry, the constructor's state or the operator
\* table, and under every interleaving of two calls each call returns what
\* it returns when run alone.
C16_CallsShareNoMutableState ==
    /\ [][service' = service /\ operators' = operators]_vars
    /\ [](\A c \in CallIds :
            (Returned(c) /\ result[c].made) => result[c] = ResultAlone(c))

\* Two interleaved calls on different texts have returned, one with a
\* finding and one after its anonymization failed.
C16_Witness ==
    /\ Succeeded(1)
    /\ result[1].entities_found # <<>>
    /\ Returned(2)
    /\ EngineFailed(2)
    /\ text[1] # text[2]
    /\ Len(engine_calls[2]) = 2

\* The anonymization engine has been invoked in call c.
AnonymizerInvoked(c) ==
    \E k \in 1..Len(engine_calls[c]) : engine_calls[c][k].engine = "anonymize"

\* The entities_found of call c are the detections as analyze returned them.
FindingsAsAnalyzed(c) ==
    result[c].entities_found =
        FoundEntities(text[c], AnalyzerOutput(recognized[text[c]]))

\* C17: on the happy path entities_found is built before the anonymization
\* engine is invoked, and is exactly the detections as the analysis engine
\* returned them.
C17_FindingsBuiltBeforeAnonymization ==
    \A c \in CallIds :
        /\ (AnonymizerInvoked(c) /\ exc[c] = NoExc) => result[c].made
        /\ Succeeded(c) => FindingsAsAnalyzed(c)

====
